---- MODULE Spec2Model ----
(***************************************************************************)
(* A model of experiments/mnist/checkpointer.py: the training-state        *)
(* factory (new_train_state) and the checkpoint adapter                    *)
(* (get_checkpointer_fns: save_fn, restore_fn, path_best_ckpt_fn).         *)
(*                                                                         *)
(* The file is glue around optax and orbax.checkpoint; what a call such as *)
(* checkpoint_manager.save(...) does is the library's behaviour.  Each     *)
(* library call of the file is modelled by an operator named after it,     *)
(* following the legacy orbax.checkpoint.CheckpointManager and the optax   *)
(* schedules the file imports.                                             *)
(***************************************************************************)
EXTENDS Integers, Sequences, FiniteSets, TLC

(***************************************************************************)
(* Bounds of the model.                                                    *)
(***************************************************************************)
MaxToKeep == 2      \* config.max_to_keep ranges over 1..MaxToKeep
MaxInterval == 2    \* config.save_interval_steps ranges over 1..MaxInterval
MaxEpoch == MaxToKeep       \* save_fn's epoch ranges over 0..MaxEpoch
MaxLoss == MaxToKeep + 1    \* metrics["val_loss"] ranges over 1..MaxLoss
MaxLR == 2          \* learning_rate and end_learning_rate range over 0..MaxLR
MaxSteps == 2       \* warmup_steps ranges over 0..MaxSteps,
                    \* decay_steps over 0..MaxSteps + 1
MaxClip == 2        \* gradient_clipping ranges over 1..MaxClip,
                    \* a gradient's global norm over 0..MaxClip + 1
MaxCount == MaxSteps + 2    \* optimizer updates 0..MaxCount - 1 are made

VARIABLES
    max_to_keep,          \* options.max_to_keep                     (line 74)
    save_interval_steps,  \* options.save_interval_steps             (line 75)
    checkpoints,          \* the manager's list of CheckpointInfo, in its order
    last_checkpoint,      \* the step of the manager's last saved checkpoint
    disk,                 \* step -> what its checkpoint directory holds
    config_pkl,           \* the content of outfolder/config.pkl     (line 86)
    increasing,           \* ghost: every save persisted so far had a larger
                          \*        val_loss than the one before it
    history,              \* ghost: while increasing, the saves persisted so
                          \*        far, in call order
    last,                 \* ghost: the last call, its arguments and its outcome
    config,               \* the config new_train_state was called with
    train_state,          \* what new_train_state returned
    opt_count,            \* the optimizer's step count
    update                \* ghost: the last optimizer update

ckptVars == <<max_to_keep, save_interval_steps, checkpoints, last_checkpoint,
              disk, config_pkl, increasing, history, last>>

factoryVars == <<config, train_state, opt_count, update>>

vars == <<ckptVars, factoryVars>>

(***************************************************************************)
(* Values.                                                                 *)
(***************************************************************************)
Epochs == 0..MaxEpoch
Losses == 1..MaxLoss
Tensors == {"a", "b"}   \* two distinct values of a parameter tree

\* An EMATrainState (lines 14-15): step, params, opt_state and ema_params are
\* pytree nodes; apply_fn and tx are static fields.
\* The states handed to save_fn: params p, with a shadow copy that has moved
\* away from it.
TrainStates ==
    {[step |-> 0, params |-> <<"theta", p>>, ema_params |-> <<"ema", p>>,
      opt_state |-> "opt", apply_fn |-> "apply", tx |-> "tx"] : p \in Tensors}

\* metrics, a dict with a val_loss
MetricsDicts == [val_loss : Losses]

\* best_fn=lambda x: x["val_loss"]
best_fn(x) == x.val_loss

NoneStep == -1   \* Python's None where a step is expected

SeqToSet(s) == {s[i] : i \in 1..Len(s)}

MaxOf(S) == CHOOSE m \in S : \A x \in S : x <= m

(***************************************************************************)
(* orbax.checkpoint.CheckpointManager, as the file configures it:          *)
(* best_fn set (the manager tracks the best), best_mode="min".             *)
(***************************************************************************)

\* sorted(..., key=best_fn(info.metrics), reverse=True): a stable sort, so
\* checkpoints of equal val_loss keep their order.  insert_desc puts x after
\* every element whose key is >= its own.
RECURSIVE insert_desc(_, _)
insert_desc(x, s) ==
    IF s = <<>> THEN <<x>>
    ELSE IF best_fn(Head(s).metrics) >= best_fn(x.metrics)
         THEN <<Head(s)>> \o insert_desc(x, Tail(s))
         ELSE <<x>> \o s

RECURSIVE sort_desc(_)
sort_desc(s) ==
    IF s = <<>> THEN <<>>
    ELSE insert_desc(s[Len(s)], sort_desc(SubSeq(s, 1, Len(s) - 1)))

RECURSIVE Reverse(_)
Reverse(s) == IF s = <<>> THEN <<>> ELSE Append(Reverse(Tail(s)), Head(s))

\* Mutant: the sort of best_mode="max", smallest val_loss first.
sort_checkpoints_by_metrics_max(cps) == Reverse(sort_desc(cps))

\* best_mode="min": the checkpoints by val_loss, largest first, best last
sort_checkpoints_by_metrics(cps) == sort_desc(cps)

\* CheckpointManager.all_steps()
all_steps(cps) == {cps[i].step : i \in 1..Len(cps)}

\* CheckpointManager.latest_step()
latest_step(cps) == IF cps = <<>> THEN NoneStep ELSE MaxOf(all_steps(cps))

\* CheckpointManager.best_step(), called at lines 95 and 99
best_step(cps) ==
    IF cps = <<>> THEN NoneStep
    ELSE LET sorted == sort_checkpoints_by_metrics(cps) IN sorted[Len(sorted)].step

\* Mutant: the save interval applied to the first checkpoint too.
should_save_on_interval_only(last_checkpoint_step, interval, step) ==
    /\ last_checkpoint_step < step
    /\ step % interval = 0

\* CheckpointManager.should_save(step): the first checkpoint is always saved;
\* afterwards a step is saved when it is past the last saved step and on the
\* save interval.
should_save(last_checkpoint_step, interval, step) ==
    \/ last_checkpoint_step = NoneStep
    \/ /\ last_checkpoint_step < step
       /\ step % interval = 0

\* How many checkpoints the retention policy drops from a list.
to_remove(cps, keep) ==
    IF Len(cps) - keep <= 0 THEN 0 ELSE Len(cps) - keep

\* Mutant: the retention of a manager without best_fn, which keeps the most
\* recently saved checkpoints whatever their val_loss.
remove_old_checkpoints_keep_latest(cps, keep) ==
    IF to_remove(cps, keep) = 0 THEN cps
    ELSE SubSeq(cps, to_remove(cps, keep) + 1, Len(cps))

\* The manager's list after its retention policy ran: the least good
\* checkpoints are dropped, and when any is, the list stays in sorted order.
remove_old_checkpoints(cps, keep) ==
    IF to_remove(cps, keep) = 0 THEN cps
    ELSE SubSeq(sort_checkpoints_by_metrics(cps), to_remove(cps, keep) + 1, Len(cps))

\* Mutant: the shadow parameters are written from the live ones.
pytree_of_live_only(ckpt) ==
    [step |-> ckpt.step, params |-> ckpt.params,
     ema_params |-> ckpt.params, opt_state |-> ckpt.opt_state]

\* PyTreeCheckpointer.save of an EMATrainState: the pytree nodes are written,
\* the static fields (apply_fn, tx) are not.
pytree_of(ckpt) ==
    [step |-> ckpt.step, params |-> ckpt.params,
     ema_params |-> ckpt.ema_params, opt_state |-> ckpt.opt_state]

\* get_save_directory(step, directory): directory / str(step)
get_save_directory(step, directory) == [dir |-> directory, name |-> step]

Outfolder == "outfolder"

\* The paths of the checkpoint directories on disk.
paths_on_disk == {get_save_directory(s, Outfolder) : s \in DOMAIN disk}

\* The manager's list as it builds it from a directory: by step.
RECURSIVE checkpoints_from(_, _)
checkpoints_from(d, steps) ==
    IF steps = {} THEN <<>>
    ELSE LET m == MaxOf(steps)
         IN  Append(checkpoints_from(d, steps \ {m}),
                    [step |-> m, metrics |-> d[m].metrics])

NoRet == [kind |-> "none"]
ErrorRet == [kind |-> "error"]

NoTree == [kind |-> "none"]

NoCall == [op |-> "none", epoch |-> NoneStep, ckpt |-> NoTree, saved |-> FALSE,
           deleted |-> {}, ret |-> NoRet]

(***************************************************************************)
(* get_checkpointer_fns and its three closures.                            *)
(***************************************************************************)

\* The checkpoint store after save_fn(epoch, ckpt, metrics) (lines 88-92).
save_result(cps, lastc, d, keep, interval, epoch, ckpt, metrics) ==
    IF ~should_save(lastc, interval, epoch)
    THEN [checkpoints |-> cps, last_checkpoint |-> lastc, disk |-> d,
          saved |-> FALSE, deleted |-> {}]
    ELSE LET added == Append(cps, [step |-> epoch, metrics |-> metrics])
             kept == remove_old_checkpoints(added, keep)
             gone == SeqToSet(added) \ SeqToSet(kept)
             written == [s \in DOMAIN d \cup {epoch} |->
                            IF s = epoch
                            THEN [tree |-> pytree_of(ckpt), metrics |-> metrics]
                            ELSE d[s]]
         IN  [checkpoints |-> kept,
              last_checkpoint |-> epoch,
              disk |-> [s \in all_steps(kept) |-> written[s]],
              saved |-> TRUE,
              deleted |-> gone]

\* Mutant: a missing checkpoint is swallowed and an empty tree returned.
restore_result_or_empty(cps, d) ==
    IF best_step(cps) \in DOMAIN d
    THEN [kind |-> "tree", tree |-> d[best_step(cps)].tree]
    ELSE [kind |-> "tree", tree |-> NoTree]

\* What restore_fn() returns (lines 94-95): the tree of the best step, or the
\* library's error when there is no such checkpoint.
restore_result(cps, d) ==
    IF best_step(cps) \in DOMAIN d
    THEN [kind |-> "tree", tree |-> d[best_step(cps)].tree]
    ELSE ErrorRet

\* Mutant: the path of the step saved last, not of the best step.
path_last_result(cps, directory) ==
    [kind |-> "path", path |-> get_save_directory(last_checkpoint, directory)]

\* What path_best_ckpt_fn() returns (lines 97-100).
path_best_result(cps, directory) ==
    [kind |-> "path", path |-> get_save_directory(best_step(cps), directory)]

\* save_fn(epoch, ckpt, metrics)
save_fn(epoch, ckpt, metrics) ==
    LET r == save_result(checkpoints, last_checkpoint, disk, max_to_keep,
                         save_interval_steps, epoch, ckpt, metrics)
        grows == \/ history = <<>>
                 \/ best_fn(history[Len(history)].metrics) < best_fn(metrics)
    IN  /\ checkpoints' = r.checkpoints
        /\ last_checkpoint' = r.last_checkpoint
        /\ disk' = r.disk
        /\ increasing' = IF r.saved THEN increasing /\ grows ELSE increasing
        /\ history' = IF ~r.saved THEN history
                      ELSE IF increasing /\ grows
                           THEN Append(history, [step |-> epoch, metrics |-> metrics])
                           ELSE <<>>
        /\ last' = [op |-> "save", epoch |-> epoch,
                    ckpt |-> IF r.saved THEN ckpt ELSE NoTree,
                    saved |-> r.saved, deleted |-> r.deleted, ret |-> NoRet]
        /\ UNCHANGED <<max_to_keep, save_interval_steps, config_pkl>>
        /\ UNCHANGED factoryVars

Save == \E epoch \in Epochs, ckpt \in TrainStates, metrics \in MetricsDicts :
            save_fn(epoch, ckpt, metrics)

\* Mutant: restore_fn() that has the manager list the folder again.
restore_fn_relisting ==
    /\ last' = [NoCall EXCEPT !.op = "restore",
                                !.ret = restore_result(checkpoints, disk)]
    /\ checkpoints' = checkpoints_from(disk, DOMAIN disk)
    /\ UNCHANGED <<max_to_keep, save_interval_steps,
                   last_checkpoint, disk, config_pkl, increasing, history>>
    /\ UNCHANGED factoryVars

\* restore_fn()
restore_fn ==
    /\ last' = [NoCall EXCEPT !.op = "restore",
                                !.ret = restore_result(checkpoints, disk)]
    /\ UNCHANGED <<max_to_keep, save_interval_steps, checkpoints,
                   last_checkpoint, disk, config_pkl, increasing, history>>
    /\ UNCHANGED factoryVars

\* path_best_ckpt_fn()
path_best_ckpt_fn ==
    /\ last' = [NoCall EXCEPT !.op = "path",
                                !.ret = path_best_result(checkpoints, Outfolder)]
    /\ UNCHANGED <<max_to_keep, save_interval_steps, checkpoints,
                   last_checkpoint, disk, config_pkl, increasing, history>>
    /\ UNCHANGED factoryVars

\* get_checkpointer_fns(outfolder, config, model_config) called again on the
\* same folder (a resumed run): the manager lists the checkpoints the folder
\* holds, and config.pkl is written again.
get_checkpointer_fns ==
    /\ checkpoints' = checkpoints_from(disk, DOMAIN disk)
    /\ last_checkpoint' = latest_step(checkpoints_from(disk, DOMAIN disk))
    /\ config_pkl' = "model_config"
    /\ last' = [NoCall EXCEPT !.op = "build"]
    /\ UNCHANGED <<max_to_keep, save_interval_steps, disk, increasing, history>>
    /\ UNCHANGED factoryVars


(***************************************************************************)
(* new_train_state.  A float is a fixed-point number: One is 1.0.          *)
(***************************************************************************)
One == 10000

float(n) == n * One
Mul(a, b) == (a * b) \div One
Div(a, b) == (a * One) \div b

\* cos(pi * c / d) for 0 <= c <= d, by Bhaskara's formula
\* cos(x) = (pi^2 - 4x^2) / (pi^2 + x^2) on the first quadrant: exact at 0,
\* pi/3, pi/2, 2pi/3 and pi, within 0.002 elsewhere.
cos_pi(c, d) ==
    IF 2 * c <= d
    THEN (One * (d * d - 4 * c * c)) \div (d * d + c * c)
    ELSE 0 - ((One * (d * d - 4 * (d - c) * (d - c)))
                  \div (d * d + (d - c) * (d - c)))

ScheduleError == [kind |-> "error"]

\* a scalar learning rate (line 47)
constant_schedule(value) == [kind |-> "constant", value |-> value]

\* optax.linear_schedule(init_value, end_value, transition_steps)
linear_schedule(init_value, end_value, transition_steps) ==
    [kind |-> "linear", init_value |-> init_value, end_value |-> end_value,
     transition_steps |-> transition_steps]

\* optax.cosine_decay_schedule(init_value, decay_steps, alpha), which refuses
\* decay_steps <= 0
cosine_decay_schedule(init_value, decay_steps, alpha) ==
    IF decay_steps <= 0 THEN ScheduleError
    ELSE [kind |-> "cosine", init_value |-> init_value,
          decay_steps |-> decay_steps, alpha |-> alpha]

\* Mutant: the cosine part decays over decay_steps counted from the end of
\* the warmup, not over decay_steps - warmup_steps.
warmup_then_cosine_decay_schedule(init_value, peak_value, warmup_steps, decay_steps, end_value) ==
    LET alpha == IF peak_value = 0 THEN 0 ELSE Div(end_value, peak_value)
        decay == cosine_decay_schedule(peak_value, decay_steps, alpha)
    IN  IF decay.kind = "error" THEN ScheduleError
        ELSE [kind |-> "join",
              first |-> linear_schedule(init_value, peak_value, warmup_steps),
              boundary |-> warmup_steps,
              second |-> decay]

\* optax.warmup_cosine_decay_schedule: a linear warmup joined at warmup_steps
\* with a cosine decay over the decay_steps - warmup_steps steps that remain
warmup_cosine_decay_schedule(init_value, peak_value, warmup_steps, decay_steps, end_value) ==
    LET alpha == IF peak_value = 0 THEN 0 ELSE Div(end_value, peak_value)
        decay == cosine_decay_schedule(peak_value, decay_steps - warmup_steps,
                                       alpha)
    IN  IF decay.kind = "error" THEN ScheduleError
        ELSE [kind |-> "join",
              first |-> linear_schedule(init_value, peak_value, warmup_steps),
              boundary |-> warmup_steps,
              second |-> decay]

clip(x, lo, hi) == IF x < lo THEN lo ELSE IF x > hi THEN hi ELSE x

\* The value of a linear schedule at a count; a schedule of
\* transition_steps <= 0 is the constant init_value.
linear_at(s, count) ==
    IF s.transition_steps <= 0 THEN s.init_value
    ELSE LET c == clip(count, 0, s.transition_steps)
             frac == One - Div(c, s.transition_steps)
         IN  Mul(s.init_value - s.end_value, frac) + s.end_value

\* The value of a cosine decay schedule at a count.
cosine_at(s, count) ==
    LET c == IF count < s.decay_steps THEN count ELSE s.decay_steps
        cosine_decay == (One + cos_pi(c, s.decay_steps)) \div 2
        decayed == Mul(One - s.alpha, cosine_decay) + s.alpha
    IN  Mul(s.init_value, decayed)

\* The learning rate a schedule gives at a count.
lr_at(s, count) ==
    CASE s.kind = "constant" -> s.value
      [] s.kind = "linear" -> linear_at(s, count)
      [] s.kind = "cosine" -> cosine_at(s, count)
      [] s.kind = "join" ->
            IF count < s.boundary THEN linear_at(s.first, count)
            ELSE cosine_at(s.second, count - s.boundary)

\* The configs: the fields the branches taken do not read are held at one
\* value.
Configs ==
    {c \in [name : {"adamw", "adam"},
            do_warmup : BOOLEAN, do_decay : BOOLEAN,
            learning_rate : 0..MaxLR, end_learning_rate : 0..MaxLR,
            warmup_steps : 0..MaxSteps, decay_steps : 0..(MaxSteps + 1),
            do_gradient_clipping : BOOLEAN, gradient_clipping : 1..MaxClip] :
        /\ ~c.do_warmup => c.warmup_steps = 0
        /\ ~c.do_decay => c.decay_steps = 0 /\ c.end_learning_rate = 0
        /\ ~c.do_gradient_clipping => c.gradient_clipping = 1}

\* Lines 26-47: the learning rate, or an error the libraries or the division
\* of line 44 raise.
learning_rate_of(c) ==
    IF c.do_warmup /\ c.do_decay
    THEN warmup_cosine_decay_schedule(0, float(c.learning_rate), c.warmup_steps,
                                      c.decay_steps, float(c.end_learning_rate))
    ELSE IF c.do_warmup
    THEN linear_schedule(0, float(c.learning_rate), c.warmup_steps)
    ELSE IF c.do_decay
    THEN IF c.learning_rate = 0 THEN ScheduleError
         ELSE cosine_decay_schedule(
                  float(c.learning_rate), c.decay_steps,
                  Div(float(c.end_learning_rate), float(c.learning_rate)))
    ELSE constant_schedule(float(c.learning_rate))

\* Lines 49-52: optax.adamw for the name "adamw", optax.adam otherwise.
optimizer_of(c, lr) ==
    IF c.name = "adamw"
    THEN <<[stage |-> "adamw", lr |-> lr]>>
    ELSE <<[stage |-> "adam", lr |-> lr]>>

\* optax.clip_by_global_norm(max_norm)
clip_by_global_norm(max_norm) ==
    <<[stage |-> "clip_by_global_norm", max_norm |-> max_norm]>>

\* Mutant: the stages chained the other way round.
chain_reversed(first, second) == second \o first

\* optax.chain(first, second): first runs on the gradient, second on its output
chain(first, second) == first \o second

\* Lines 54-57
tx_of(c, lr) ==
    IF c.do_gradient_clipping
    THEN chain(clip_by_global_norm(c.gradient_clipping), optimizer_of(c, lr))
    ELSE optimizer_of(c, lr)

\* What model.init(...)["params"] may be: a tree of parameter name -> shape.
ModelTrees == {[w |-> <<2, 3>>], [w |-> <<3, 1>>, b |-> <<1>>]}

EmptyTree == [k \in {} |-> <<>>]

\* Mutant: a shadow tree that starts empty.
copy_empty(tree) == EmptyTree

\* variables["params"].copy()
copy(tree) == [k \in DOMAIN tree |-> tree[k]]

NoTrainState ==
    [status |-> "none", params |-> EmptyTree, ema_params |-> EmptyTree,
     tx |-> <<>>, lr |-> ScheduleError]

\* What new_train_state(rng_key, model, init_batch, config) returns, where
\* variables is model.init's result (lines 18-64).
new_train_state(variables, c) ==
    LET lr == learning_rate_of(c) IN
    IF lr.kind = "error"
    THEN [NoTrainState EXCEPT !.status = "error"]
    ELSE [status |-> "ok",
          params |-> variables,
          ema_params |-> copy(variables),
          tx |-> tx_of(c, lr),
          lr |-> lr]

\* The gradient, by its global norm, that the adam or adamw stage of a chain
\* receives: clip_by_global_norm leaves a gradient of norm below max_norm as it
\* is and rescales any other to norm max_norm.
RECURSIVE optimizer_input(_, _)
optimizer_input(tx, norm) ==
    IF Head(tx).stage = "clip_by_global_norm"
    THEN optimizer_input(Tail(tx),
                         IF norm < Head(tx).max_norm THEN norm
                         ELSE Head(tx).max_norm)
    ELSE norm

NoUpdate == [kind |-> "none", at |-> 0, raw |-> 0, seen |-> 0, lr |-> 0]

DefaultConfig ==
    [name |-> "adam", do_warmup |-> FALSE, do_decay |-> FALSE,
     learning_rate |-> 0, end_learning_rate |-> 0, warmup_steps |-> 0,
     decay_steps |-> 0, do_gradient_clipping |-> FALSE, gradient_clipping |-> 1]

\* new_train_state is called once, at the start of a run.
NewTrainState ==
    /\ train_state.status = "none"
    /\ \E variables \in ModelTrees, c \in Configs :
          /\ config' = c
          /\ train_state' = new_train_state(variables, c)
    /\ UNCHANGED <<opt_count, update>>
    /\ UNCHANGED ckptVars

\* One update of the optimizer built at lines 49-57, on a gradient of a given
\* global norm: the chain runs on the gradient, the learning rate is the
\* schedule's at the optimizer's count, and the count goes up.
ApplyGradients ==
    /\ train_state.status = "ok"
    /\ opt_count < MaxCount
    /\ \E norm \in 0..(MaxClip + 1) :
          update' = [kind |-> "update", at |-> opt_count, raw |-> norm,
                     seen |-> optimizer_input(train_state.tx, norm),
                     lr |-> lr_at(train_state.lr, opt_count)]
    /\ opt_count' = opt_count + 1
    /\ UNCHANGED <<config, train_state>>
    /\ UNCHANGED ckptVars

\* The adapter built on an empty folder; new_train_state not yet called.
Init ==
    /\ max_to_keep \in 1..MaxToKeep
    /\ save_interval_steps \in 1..MaxInterval
    /\ checkpoints = <<>>
    /\ last_checkpoint = NoneStep
    /\ disk = <<>>
    /\ config_pkl = "model_config"
    /\ increasing = TRUE
    /\ history = <<>>
    /\ last = NoCall
    /\ config = DefaultConfig
    /\ train_state = NoTrainState
    /\ opt_count = 0
    /\ update = NoUpdate

Next ==
    \/ Save
    \/ restore_fn
    \/ path_best_ckpt_fn
    \/ get_checkpointer_fns

\* The checkpoint adapter, built on an empty folder and then called.
Spec == Init /\ [][Next]_vars

\* new_train_state not yet called; an adapter that is not used.
FactoryInit ==
    /\ max_to_keep = 1
    /\ save_interval_steps = 1
    /\ checkpoints = <<>>
    /\ last_checkpoint = NoneStep
    /\ disk = <<>>
    /\ config_pkl = "model_config"
    /\ increasing = TRUE
    /\ history = <<>>
    /\ last = NoCall
    /\ config = DefaultConfig
    /\ train_state = NoTrainState
    /\ opt_count = 0
    /\ update = NoUpdate

FactoryNext ==
    \/ NewTrainState
    \/ ApplyGradients

\* The factory, called once, and the optimizer it built, stepped.
SpecFactory == FactoryInit /\ [][FactoryNext]_vars

(***************************************************************************)
(* Properties of the checkpoint adapter.                                   *)
(***************************************************************************)

\* No save has been persisted yet.
NeverSaved == increasing /\ history = <<>>

\* A restored tree equals a state parameter-wise.
ParamEq(tree, state) ==
    /\ tree.params = state.params
    /\ tree.ema_params = state.ema_params

MinOf2(a, b) == IF a <= b THEN a ELSE b

\* C1: a save on an adapter whose folder holds no checkpoint, followed by
\* restore(), returns a tree parameter-wise equal to the state saved, whatever
\* the epoch, the state and the val_loss.
C1_SaveThenRestore ==
    [][(/\ last.op = "save"
        /\ last.saved
        /\ Len(history) = 1
        /\ last'.op = "restore")
       => (/\ last'.ret.kind = "tree"
           /\ ParamEq(last'.ret.tree, last.ckpt))]_vars

\* C1 witness: restore() after one save, made at an epoch off the save
\* interval, returned that save's tree.
C1_Witness ==
    /\ last.op = "restore"
    /\ Len(history) = 1
    /\ history[1].step % save_interval_steps # 0
    /\ last.ret.kind = "tree"
    /\ last.ret.tree.params = <<"theta", "b">>

\* C2: while the persisted saves have strictly increasing val_loss, the
\* retained checkpoints are exactly the first min(N, max_to_keep) of the N
\* saves, which are those of smallest val_loss, each still on disk with its
\* metrics, and the best step is the step of the first save, the smallest
\* val_loss of all saves so far.
C2_KeepsSmallest ==
    (increasing /\ history # <<>>) =>
        LET m == MinOf2(Len(history), max_to_keep)
            smallest == {history[i] : i \in 1..m}
        IN  /\ SeqToSet(checkpoints) = smallest
            /\ DOMAIN disk = {c.step : c \in smallest}
            /\ \A c \in smallest : disk[c.step].metrics = c.metrics
            /\ best_step(checkpoints) = history[1].step
            /\ \A i \in 1..Len(history) :
                   best_fn(disk[best_step(checkpoints)].metrics)
                       <= best_fn(history[i].metrics)

\* C2 witness: more increasing saves than max_to_keep = 2 were made.
C2_Witness ==
    /\ increasing
    /\ max_to_keep = 2
    /\ Len(history) = 3
    /\ Len(checkpoints) = 2

\* C3: restore() when no checkpoint was ever saved fails, and it leaves the
\* folder without any checkpoint.
C3_RestoreWithoutCheckpoint ==
    (last.op = "restore" /\ NeverSaved) =>
        /\ last.ret = ErrorRet
        /\ DOMAIN disk = {}
        /\ checkpoints = <<>>

\* C3 witness: restore() was called before any save.
C3_Witness ==
    /\ last.op = "restore"
    /\ NeverSaved
    /\ last.ret = ErrorRet

\* C4: once a save has been persisted, path_best_ckpt_fn() names a checkpoint
\* directory that exists on disk.
C4_PathToBestExists ==
    ~NeverSaved =>
        path_best_result(checkpoints, Outfolder).path \in paths_on_disk

\* C4 witness: path_best_ckpt_fn() returned an existing directory after the
\* retention policy had deleted the checkpoint saved last.
C4_Witness ==
    /\ last.op = "path"
    /\ last.ret.path \in paths_on_disk
    /\ last_checkpoint \notin DOMAIN disk

\* C5: at most max_to_keep checkpoints are retained; a save deletes at most
\* one checkpoint, and no retained checkpoint has a larger val_loss than the
\* deleted one, so a checkpoint of minimum val_loss is always retained.
C5_Retention ==
    /\ Len(checkpoints) <= max_to_keep
    /\ Cardinality(DOMAIN disk) <= max_to_keep
    /\ DOMAIN disk = all_steps(checkpoints)
    /\ last.op = "save" =>
          /\ Cardinality(last.deleted) <= 1
          /\ \A d \in last.deleted :
                /\ d.step \notin DOMAIN disk
                /\ \A i \in 1..Len(checkpoints) :
                      best_fn(checkpoints[i].metrics) <= best_fn(d.metrics)

\* C5 witness: a save evicted an older checkpoint of larger val_loss.
C5_Witness ==
    /\ last.op = "save"
    /\ \E d \in last.deleted :
          /\ d.step # last.epoch
          /\ best_fn(d.metrics) > best_fn(disk[last.epoch].metrics)

\* C6 as claimed: a save is persisted exactly when its epoch is on the save
\* interval.
C6_SavedIffAligned ==
    last.op = "save" => (last.saved <=> last.epoch % save_interval_steps = 0)

\* C6 amended: a save is persisted when the folder holds no checkpoint
\* (aligned or not) or when its epoch is on the save interval and past the
\* step saved last; it is skipped when a checkpoint exists and the epoch is
\* off the interval or not past the latest retained step; a skipped save
\* leaves the retained checkpoints and the best step as they were; save
\* returns nothing.
C6_SaveInterval ==
    [][last'.op = "save" =>
        LET aligned == last'.epoch % save_interval_steps = 0 IN
        /\ (checkpoints = <<>> \/ (aligned /\ last'.epoch > last_checkpoint))
              => /\ last'.saved
                 /\ last_checkpoint' = last'.epoch
                 /\ \/ last'.epoch \in DOMAIN disk'
                    \/ \E d \in last'.deleted : d.step = last'.epoch
        /\ (checkpoints # <<>>
               /\ (~aligned \/ last'.epoch <= latest_step(checkpoints)))
              => ~last'.saved
        /\ ~last'.saved
              => /\ checkpoints' = checkpoints
                 /\ disk' = disk
                 /\ best_step(checkpoints') = best_step(checkpoints)
        /\ last'.ret = NoRet]_vars

\* C6 witness: a save at an epoch off the save interval was persisted.
C6_Witness ==
    /\ last.op = "save"
    /\ last.saved
    /\ last.epoch % save_interval_steps # 0
    /\ last.epoch \in DOMAIN disk

\* C10: restore_fn() and path_best_ckpt_fn() leave the manager's list, the
\* step saved last, the folder and the best step as they were, and a call
\* repeated with no other call in between returns what it returned before.
C10_ReadOnly ==
    [][last'.op \in {"restore", "path"} =>
        /\ checkpoints' = checkpoints
        /\ last_checkpoint' = last_checkpoint
        /\ disk' = disk
        /\ config_pkl' = config_pkl
        /\ best_step(checkpoints') = best_step(checkpoints)
        /\ last.op = last'.op => last'.ret = last.ret]_vars

\* C10 witness: restore() returned a tree from a folder of two checkpoints
\* that the manager lists in another order than the folder's.
C10_Witness ==
    /\ last.op = "restore"
    /\ last.ret.kind = "tree"
    /\ Len(checkpoints) = 2
    /\ checkpoints # checkpoints_from(disk, DOMAIN disk)

(***************************************************************************)
(* Properties of new_train_state.                                          *)
(***************************************************************************)

\* C7: in the state new_train_state returns, params and ema_params have the
\* same keys and the same shape under each key.
C7_SameTreeStructure ==
    train_state.status = "ok" =>
        /\ DOMAIN train_state.ema_params = DOMAIN train_state.params
        /\ \A k \in DOMAIN train_state.params :
              train_state.ema_params[k] = train_state.params[k]

\* C7 witness: a state was created from a model of two parameters.
C7_Witness ==
    /\ train_state.status = "ok"
    /\ DOMAIN train_state.params = {"w", "b"}
    /\ train_state.ema_params.b = <<1>>

\* Two learning rates equal within the rounding of the arithmetic.
Tolerance == MaxLR + 1

Near(a, b) == a - b <= Tolerance /\ b - a <= Tolerance

Counts == 0..(2 * MaxSteps + 2)

\* The branch lines 26-47 take for a config.
BranchTaken(c, kind) ==
    kind = IF c.do_warmup /\ c.do_decay THEN "join"
           ELSE IF c.do_warmup THEN "linear"
           ELSE IF c.do_decay THEN "cosine"
           ELSE "constant"

\* The documented values of the learning rate of a created state.
DocumentedValues(c, lr) ==
    LET peak == float(c.learning_rate)
        floor == float(c.end_learning_rate)
    IN  /\ BranchTaken(c, lr.kind)
        /\ (c.do_warmup /\ c.do_decay) =>
              /\ lr_at(lr, 0) = 0
              /\ lr_at(lr, c.warmup_steps) = peak
              /\ \A k \in Counts : k >= c.decay_steps => Near(lr_at(lr, k), floor)
        /\ (c.do_warmup /\ ~c.do_decay) =>
              /\ lr_at(lr, 0) = 0
              /\ \A k \in Counts : k >= c.warmup_steps => lr_at(lr, k) = peak
        /\ (~c.do_warmup /\ c.do_decay) =>
              /\ lr_at(lr, 0) = peak
              /\ \A k \in Counts : k >= c.decay_steps => Near(lr_at(lr, k), floor)
        /\ (~c.do_warmup /\ ~c.do_decay) =>
              \A k \in Counts : lr_at(lr, k) = peak

\* C8 as claimed: whatever the config, the learning rate of a created state
\* has the documented values.
C8_ScheduleValues ==
    train_state.status = "ok" => DocumentedValues(config, train_state.lr)

\* C8 amended: the learning rate has the documented values when warmup_steps
\* is at least 1 where warmup is on and learning_rate is above 0 where decay
\* is on; with warmup and decay the end value is reached at step decay_steps,
\* counted from step 0.
C8_ScheduleValuesAmended ==
    (/\ train_state.status = "ok"
     /\ config.do_warmup => config.warmup_steps >= 1
     /\ config.do_decay => config.learning_rate > 0)
        => DocumentedValues(config, train_state.lr)

\* C8 witness: an optimizer with warmup and decay made its update at step
\* decay_steps at the end learning rate, below the peak.
C8_Witness ==
    /\ train_state.status = "ok"
    /\ config.do_warmup /\ config.do_decay
    /\ config.warmup_steps >= 1
    /\ config.end_learning_rate > 0
    /\ config.end_learning_rate < config.learning_rate
    /\ update.kind = "update"
    /\ update.at = config.decay_steps
    /\ Near(update.lr, float(config.end_learning_rate))

\* C9: with do_gradient_clipping the optimizer is the clipping stage followed
\* by the adam or adamw stage, which receives the gradient clipped to a global
\* norm of at most gradient_clipping; without it the optimizer is the adam or
\* adamw stage alone, which receives the gradient as it is.
C9_ClipBeforeOptimizer ==
    train_state.status = "ok" =>
        LET tx == train_state.tx
            opt == IF config.name = "adamw" THEN "adamw" ELSE "adam"
        IN  IF config.do_gradient_clipping
            THEN /\ Len(tx) = 2
                 /\ tx[1].stage = "clip_by_global_norm"
                 /\ tx[1].max_norm = config.gradient_clipping
                 /\ tx[2].stage = opt
                 /\ update.kind = "update" =>
                       /\ update.seen <= config.gradient_clipping
                       /\ update.seen = MinOf2(update.raw, config.gradient_clipping)
            ELSE /\ Len(tx) = 1
                 /\ tx[1].stage = opt
                 /\ update.kind = "update" => update.seen = update.raw

\* C9 witness: a gradient of a norm above gradient_clipping reached the
\* adamw stage with the norm gradient_clipping.
C9_Witness ==
    /\ train_state.status = "ok"
    /\ config.do_gradient_clipping
    /\ config.name = "adamw"
    /\ update.kind = "update"
    /\ update.raw > config.gradient_clipping
    /\ update.seen = config.gradient_clipping

====
